---------------------------- MODULE Spec2Model ----------------------------
(***************************************************************************)
(* Model of the solar-terrestrial e-ink server.  The repository ships two  *)
(* variants of the server program: src/server.js (feed cache with          *)
(* stale-while-error, safeParse, black-and-white theme) and the earlier    *)
(* src/unnamed/part_000 (no stale fallback, direct indexing, no b/w        *)
(* theme).  Both are modelled; the variable `variant` says which program   *)
(* is running.                                                             *)
(*                                                                         *)
(* JavaScript values are tagged records:                                   *)
(*   [t |-> "undef"]            undefined                                  *)
(*   [t |-> "nan"]              NaN                                        *)
(*   [t |-> "num", n, e]        the number n * 10^(-e)                     *)
(*   [t |-> "str", s]           a string, s a sequence of characters       *)
(*   [t |-> "obj", text]        an xml2js element object {_: text, $: ...} *)
(***************************************************************************)
EXTENDS Integers, Sequences, FiniteSets, TLC

Undef == [t |-> "undef"]
NaN == [t |-> "nan"]
Num(n) == [t |-> "num", n |-> n, e |-> 0]
Dec(n, e) == [t |-> "num", n |-> n, e |-> e]
Str(s) == [t |-> "str", s |-> s]
Obj(text) == [t |-> "obj", text |-> text]

IsNum(v) == v.t = "num"
IsStr(v) == v.t = "str"

(***************************************************************************)
(* Strings and the String.prototype functions the servers use.             *)
(***************************************************************************)
Digits == <<"0", "1", "2", "3", "4", "5", "6", "7", "8", "9">>

IsDigit(c) == \E i \in 1..10 : Digits[i] = c

DigitVal(c) == (CHOOSE i \in 1..10 : Digits[i] = c) - 1

IsSpace(c) == c = " "

Uppers == <<"A", "B", "C", "D", "E", "F", "G", "H", "I", "J", "K", "L", "M",
            "N", "O", "P", "Q", "R", "S", "T", "U", "V", "W", "X", "Y", "Z">>

Lowers == <<"a", "b", "c", "d", "e", "f", "g", "h", "i", "j", "k", "l", "m",
            "n", "o", "p", "q", "r", "s", "t", "u", "v", "w", "x", "y", "z">>

LowerChar(c) ==
    IF \E i \in 1..26 : Uppers[i] = c
    THEN Lowers[CHOOSE i \in 1..26 : Uppers[i] = c]
    ELSE c

\* String.prototype.toLowerCase
toLowerCase(s) == [i \in 1..Len(s) |-> LowerChar(s[i])]

\* String.prototype.includes: needle occurs as a contiguous substring
includes(s, needle) ==
    \E i \in 0..(Len(s) - Len(needle)) :
        \A j \in 1..Len(needle) : s[i + j] = needle[j]

RECURSIVE SkipSpaces(_)
SkipSpaces(s) ==
    IF s # <<>> /\ IsSpace(Head(s)) THEN SkipSpaces(Tail(s)) ELSE s

RECURSIVE DropTrailingSpaces(_)
DropTrailingSpaces(s) ==
    IF s # <<>> /\ IsSpace(s[Len(s)])
    THEN DropTrailingSpaces(SubSeq(s, 1, Len(s) - 1))
    ELSE s

\* String.prototype.trim
trim(s) == DropTrailingSpaces(SkipSpaces(s))

\* the longest prefix of s made of decimal digits
RECURSIVE DigitPrefix(_)
DigitPrefix(s) ==
    IF s # <<>> /\ IsDigit(Head(s))
    THEN <<Head(s)>> \o DigitPrefix(Tail(s))
    ELSE <<>>

RECURSIVE DigitsValue(_, _)
DigitsValue(ds, acc) ==
    IF ds = <<>> THEN acc
    ELSE DigitsValue(Tail(ds), 10 * acc + DigitVal(Head(ds)))

HasSign(s) == s # <<>> /\ Head(s) \in {"+", "-"}

SignOf(s) == IF s # <<>> /\ Head(s) = "-" THEN -1 ELSE 1

Unsigned(s) == IF HasSign(s) THEN Tail(s) ELSE s

\* parseInt(string, 10): leading white space, an optional sign, then the
\* longest run of digits; NaN when there is none.
parseIntStr(s) ==
    LET body == Unsigned(SkipSpaces(s))
        ds == DigitPrefix(body)
    IN  IF ds = <<>> THEN NaN
        ELSE Num(SignOf(SkipSpaces(s)) * DigitsValue(ds, 0))

RECURSIVE StripZeros(_)
StripZeros(ds) ==
    IF ds # <<>> /\ ds[Len(ds)] = "0"
    THEN StripZeros(SubSeq(ds, 1, Len(ds) - 1))
    ELSE ds

\* parseFloat(string): leading white space, an optional sign, digits with an
\* optional fraction (the feed texts of this model carry no exponent and no
\* "Infinity"); NaN when neither an integer part nor a fraction is there.
parseFloatStr(s) ==
    LET t == SkipSpaces(s)
        body == Unsigned(t)
        ip == DigitPrefix(body)
        rest == SubSeq(body, Len(ip) + 1, Len(body))
        fp == IF rest # <<>> /\ Head(rest) = "." THEN DigitPrefix(Tail(rest)) ELSE <<>>
        fz == StripZeros(fp)
    IN  IF ip = <<>> /\ fp = <<>> THEN NaN
        ELSE Dec(SignOf(t) * DigitsValue(ip \o fz, 0), Len(fz))

\* String(value) as parseInt / parseFloat apply it to a non-string argument
ObjectText == <<"[", "o", "b", "j", "e", "c", "t", " ", "O", "b", "j", "e", "c", "t", "]">>

\* the number of decimal digits of n >= 0
DigitCount(n) == CHOOSE k \in 1..12 : n < 10 ^ k /\ (k = 1 \/ n >= 10 ^ (k - 1))

\* the last len decimal digits of n
LastDigits(n, len) == [i \in 1..len |-> Digits[((n \div (10 ^ (len - i))) % 10) + 1]]

\* the decimal text of n * 10^(-e), n >= 0, e fraction digits: the digits
\* before the point without leading zeros, then the point and e digits
DecimalText(n, e) ==
    LastDigits(n \div (10 ^ e), DigitCount(n \div (10 ^ e)))
    \o (IF e = 0 THEN <<>> ELSE <<".">> \o LastDigits(n, e))

ToText(v) ==
    CASE v.t = "str" -> v.s
      [] v.t = "obj" -> ObjectText
      [] v.t = "undef" -> <<"u", "n", "d", "e", "f", "i", "n", "e", "d">>
      [] v.t = "nan" -> <<"N", "a", "N">>
      [] v.t = "num" -> (IF v.n < 0 THEN <<"-">> ELSE <<>>)
                        \o DecimalText(IF v.n < 0 THEN -v.n ELSE v.n, v.e)

parseInt(v) == parseIntStr(ToText(v))

parseFloat(v) == parseFloatStr(ToText(v))


(***************************************************************************)
(* The feed document as xml2js hands it to parseSolarXml.                  *)
(*   env   "notxml"       parseString reports an error                     *)
(*         "noroot"       the root element is not <solar>                  *)
(*         "nosolardata"  <solar> has no <solardata> child                 *)
(*         "empty"        <solardata/> is empty: solardata[0] is ''        *)
(*         "ok"           solardata[0] is an object with the children      *)
(*   leaf  per scalar field, solardata.<field>: undefined or an array      *)
(*   cc    solardata.calculatedconditions, vhf likewise                    *)
(* An array is [t |-> "arr", a |-> <<...>>].  A collection's element is '' *)
(* (an empty tag) or [t |-> "elem", kids |-> undefined or array]; an entry *)
(* of kids is a plain string (an element without attributes) or            *)
(* [t |-> "entry", text, attrs] with attrs undefined or                    *)
(* [name |-> .., key |-> ..] (key is the time or location attribute).      *)
(***************************************************************************)
Arr(a) == [t |-> "arr", a |-> a]
Elem(kids) == [t |-> "elem", kids |-> kids]
Entry(text, attrs) == [t |-> "entry", text |-> text, attrs |-> attrs]
Attrs(name, key) == [name |-> name, key |-> key]

\* the scalar fields of parsedJson with the type safeParse is given
FieldTable ==
    << <<"source", "string">>, <<"updated", "string">>,
       <<"solarflux", "int">>, <<"aindex", "int">>, <<"kindex", "int">>,
       <<"kindexnt", "string">>, <<"xray", "string">>,
       <<"sunspots", "int">>, <<"heliumline", "float">>,
       <<"protonflux", "int">>, <<"electonflux", "int">>,
       <<"aurora", "int">>, <<"normalization", "float">>,
       <<"latdegree", "float">>, <<"solarwind", "float">>,
       <<"magneticfield", "float">>, <<"geomagfield", "string">>,
       <<"signalnoise", "string">>, <<"fof2", "string">>,
       <<"muf", "string">>, <<"muffactor", "string">> >>

FieldNames == {FieldTable[i][1] : i \in 1..Len(FieldTable)}

FieldType(f) == FieldTable[CHOOSE i \in 1..Len(FieldTable) : FieldTable[i][1] = f][2]

NumericFields == {f \in FieldNames : FieldType(f) \in {"int", "float"}}

NA == Str(<<"N", "/", "A">>)

\* a thrown exception, and a normal completion carrying a value
Throw(e) == [ok |-> FALSE, err |-> e]
Return(v) == [ok |-> TRUE, val |-> v]

\* server.js safeParse(arr, type)
safeParse(arr, type) ==
    IF arr.t = "undef" \/ Len(arr.a) = 0 THEN NA
    ELSE LET val == arr.a[1]
         IN  CASE type = "int" -> parseInt(val)
               [] type = "float" -> parseFloat(val)
               [] OTHER -> val

(***************************************************************************)
(* A JavaScript object with string keys as a sequence of                   *)
(* [k |-> key, v |-> value] in the order Object.entries and JSON.stringify *)
(* enumerate it: the keys that are array indices ("0", "7", "10": decimal  *)
(* integers without a leading zero) first in ascending numeric order, then *)
(* the other keys in the order they were first assigned.                   *)
(***************************************************************************)
HasKey(o, k) == \E i \in 1..Len(o) : o[i].k = k

Get(o, k) == IF HasKey(o, k) THEN o[CHOOSE i \in 1..Len(o) : o[i].k = k].v ELSE Undef

\* an integer index property name
IsIndexKey(k) ==
    /\ k # <<>> /\ Len(k) <= 9
    /\ \A i \in 1..Len(k) : IsDigit(k[i])
    /\ Len(k) = 1 \/ k[1] # "0"

\* the number of index keys of o below index key k
IndexKeysBelow(o, k) ==
    Cardinality({i \in 1..Len(o) :
                    IsIndexKey(o[i].k) /\ DigitsValue(o[i].k, 0) < DigitsValue(k, 0)})

\* o[k] = v
Put(o, k, v) ==
    IF HasKey(o, k)
    THEN [i \in 1..Len(o) |-> IF o[i].k = k THEN [k |-> k, v |-> v] ELSE o[i]]
    ELSE IF IsIndexKey(k)
    THEN SubSeq(o, 1, IndexKeysBelow(o, k)) \o <<[k |-> k, v |-> v]>>
         \o SubSeq(o, IndexKeysBelow(o, k) + 1, Len(o))
    ELSE Append(o, [k |-> k, v |-> v])

\* the reducer of calculatedconditions / calculatedvhfconditions:
\*   (acc, { _, $: { name, time } }) => { acc[name] = acc[name] || {};
\*                                        acc[name][time] = _; return acc; }
\* Destructuring $ of an entry that has no attributes throws a TypeError.
EntryHasAttrs(entry) == entry.t = "entry" /\ entry.attrs # Undef

foldEntry(acc, entry) ==
    LET name == ToText(entry.attrs.name)
        key == ToText(entry.attrs.key)
        inner == IF HasKey(acc, name) THEN Get(acc, name) ELSE <<>>
    IN  Put(acc, name, Put(inner, key, entry.text))

RECURSIVE reduceEntries(_, _)
reduceEntries(entries, acc) ==
    IF entries = <<>> THEN Return(acc)
    ELSE IF ~EntryHasAttrs(Head(entries)) THEN Throw("TypeError")
    ELSE reduceEntries(Tail(entries), foldEntry(acc, Head(entries)))

\* solardata.X?.[0]?.band?.reduce(..., {}) || {}
foldConditions(coll) ==
    IF coll.t = "undef" \/ Len(coll.a) = 0 THEN Return(<<>>)
    ELSE IF coll.a[1].t # "elem" \/ coll.a[1].kids.t = "undef" THEN Return(<<>>)
    ELSE reduceEntries(coll.a[1].kids.a, <<>>)

\* part_000: solardata.X[0].band.reduce(..., {}) without optional chaining
foldConditionsLegacy(coll) ==
    IF coll.t = "undef" \/ Len(coll.a) = 0 THEN Throw("TypeError")
    ELSE IF coll.a[1].t # "elem" \/ coll.a[1].kids.t = "undef" THEN Throw("TypeError")
    ELSE reduceEntries(coll.a[1].kids.a, <<>>)

\* whether result.solar.solardata[0] evaluates without a TypeError
HasEnvelope(doc) == doc.env \in {"ok", "empty"}

\* solardata.<field> ('' has no such property)
LeafOf(doc, f) == IF doc.env = "ok" THEN doc.leaf[f] ELSE Undef

CollOf(doc, which) ==
    IF doc.env # "ok" THEN Undef
    ELSE IF which = "cc" THEN doc.cc ELSE doc.vhf

\* the parsedJson object literal: the scalar fields and the two folded
\* tables; a TypeError raised while folding propagates
recordOf(fields, cc, vhf) ==
    IF ~cc.ok THEN cc
    ELSE IF ~vhf.ok THEN vhf
    ELSE Return([f |-> fields, calculatedconditions |-> cc.val,
                 calculatedvhfconditions |-> vhf.val])

\* server.js parseSolarXml, from the payload getSolarXml returned
parseSolarXmlServer(doc) ==
    IF doc.env = "notxml" THEN Throw("xml2js")
    ELSE IF ~HasEnvelope(doc) THEN Throw("TypeError")
    ELSE recordOf([x \in FieldNames |-> safeParse(LeafOf(doc, x), FieldType(x))],
                  foldConditions(CollOf(doc, "cc")), foldConditions(CollOf(doc, "vhf")))

\* part_000: solardata.<field>[0], converted per type; a missing field throws
legacyLeafThrows(arr, f) ==
    \/ arr.t = "undef"
    \/ f = "source" /\ Len(arr.a) = 0

legacyLeaf(arr, f) ==
    LET val == IF Len(arr.a) = 0 THEN Undef ELSE arr.a[1]
    IN  CASE f = "source" -> (IF val.t = "obj" THEN val.text ELSE Undef)
          [] FieldType(f) = "int" -> parseInt(val)
          [] FieldType(f) = "float" -> parseFloat(val)
          [] OTHER -> val

\* part_000 parseSolarXml
parseSolarXmlLegacy(doc) ==
    IF doc.env = "notxml" THEN Throw("xml2js")
    ELSE IF ~HasEnvelope(doc) THEN Throw("TypeError")
    ELSE IF \E f \in FieldNames : legacyLeafThrows(LeafOf(doc, f), f) THEN Throw("TypeError")
    ELSE recordOf([x \in FieldNames |-> legacyLeaf(LeafOf(doc, x), x)],
                  foldConditionsLegacy(CollOf(doc, "cc")),
                  foldConditionsLegacy(CollOf(doc, "vhf")))

parseSolarXml(v, doc) ==
    IF v = "server" THEN parseSolarXmlServer(doc) ELSE parseSolarXmlLegacy(doc)

\* res.json(value): JSON.stringify writes NaN as null and omits a property
\* whose value is undefined.  The result per scalar field of the record.
JsonOf(v) ==
    CASE v.t = "undef" -> "omitted"
      [] v.t = "nan" -> "null"
      [] v.t = "num" -> "number"
      [] v.t = "str" -> "string"
      [] v.t = "obj" -> "object"


(***************************************************************************)
(* Render settings: the process-wide `settings` object and the middleware  *)
(* that overwrites it from each request's query string.                    *)
(***************************************************************************)
Variants == {"server", "legacy"}

\* server.js defaultSettings
defaultSettingsServer ==
    [mode |-> Num(1), invert |-> Num(0), width |-> Num(800), height |-> Num(480),
     fontSizeSmall |-> Num(20), fontSizeNormal |-> Num(22), fontSizeLarge |-> Num(22),
     LINE_SPACING_DEFAULT |-> Num(30), bw_mode |-> Num(0)]

\* part_000 defaultSettings (no LINE_SPACING_DEFAULT, no bw_mode property)
defaultSettingsLegacy ==
    [mode |-> Num(1), invert |-> Num(0), width |-> Num(800), height |-> Num(480),
     fontSizeSmall |-> Num(18), fontSizeNormal |-> Num(20), fontSizeLarge |-> Num(20),
     LINE_SPACING_DEFAULT |-> Undef, bw_mode |-> Undef]

defaultSettings(v) == IF v = "server" THEN defaultSettingsServer ELSE defaultSettingsLegacy

\* a query string: every parameter is undefined (absent) or a string
Query(mode, invert, width, height, bw_mode) ==
    [mode |-> mode, invert |-> invert, width |-> width, height |-> height,
     bw_mode |-> bw_mode]

s0 == Str(<<"0">>)
s1 == Str(<<"1">>)

\* mode === '0' || mode === '1' ? parseInt(mode) : defaultSettings.mode
parseFlag(q, dflt) == IF q = s0 \/ q = s1 THEN parseInt(q) ELSE dflt

\* parseInt(width ?? defaultSettings.width)
parseSize(q, dflt) == IF q = Undef THEN parseInt(dflt) ELSE parseInt(q)

\* bw_mode === '1' ? 1 : defaultSettings.bw_mode
parseBw(q, dflt) == IF q = s1 THEN Num(1) ELSE dflt

\* the app.use middleware: the settings object after it ran for query q
middleware(v, st, q) ==
    LET d == defaultSettings(v)
        base == [st EXCEPT !.mode = parseFlag(q.mode, d.mode),
                           !.invert = parseFlag(q.invert, d.invert),
                           !.width = parseSize(q.width, d.width),
                           !.height = parseSize(q.height, d.height)]
    IN  IF v = "server"
        THEN [base EXCEPT !.bw_mode = parseBw(q.bw_mode, d.bw_mode)]
        ELSE base

\* the render configuration a request's own query string asks for
OwnConfig(v, q) ==
    LET st == middleware(v, defaultSettings(v), q)
    IN  [mode |-> st.mode, invert |-> st.invert, width |-> st.width,
         height |-> st.height, bw_mode |-> st.bw_mode]

\* the configuration renderSolarCanvas reads from the settings object
ConfigOf(st) ==
    [mode |-> st.mode, invert |-> st.invert, width |-> st.width,
     height |-> st.height, bw_mode |-> st.bw_mode]

(***************************************************************************)
(* Numbers of the layout.  Math.round(base * height / 480) for a height    *)
(* that is a number; NaN when the height is NaN.                           *)
(***************************************************************************)
FloorDiv(a, b) == a \div b

\* Math.round(p / q) for q > 0: halves round towards +infinity
RoundDiv(p, q) == FloorDiv(2 * p + q, 2 * q)

RECURSIVE Gcd(_, _)
Gcd(a, b) == IF b = 0 THEN a ELSE Gcd(b, a % b)

Abs(x) == IF x < 0 THEN -x ELSE x

\* the exact quotient p / q (q > 0) as a JavaScript number: an integer, or
\* the reduced fraction when q does not divide p
Quot(p, q) ==
    LET g == Gcd(Abs(p), q)
    IN  IF g = q THEN Num(p \div q)
        ELSE IF g = 0 THEN Num(0)
        ELSE [t |-> "frac", p |-> p \div g, q |-> q \div g]

\* server.js: Math.round(defaultSettings.X * SCALE_FACTOR),
\* SCALE_FACTOR = settings.height / defaultSettings.height
scaled(base, height) ==
    IF height.t # "num" THEN NaN
    ELSE Num(RoundDiv(base.n * height.n, defaultSettingsServer.height.n))

\* part_000: (defaultSettings.X * settings.height) / defaultSettings.height
scaledLegacy(base, height) ==
    IF height.t # "num" THEN NaN
    ELSE Quot(base.n * height.n, defaultSettingsLegacy.height.n)

\* the font sizes renderSolarCanvas writes back into the settings object
withFontSizes(v, st) ==
    IF v = "server"
    THEN [st EXCEPT !.fontSizeSmall = scaled(defaultSettingsServer.fontSizeSmall, st.height),
                    !.fontSizeNormal = scaled(defaultSettingsServer.fontSizeNormal, st.height),
                    !.fontSizeLarge = scaled(defaultSettingsServer.fontSizeLarge, st.height)]
    ELSE [st EXCEPT !.fontSizeSmall = scaledLegacy(defaultSettingsLegacy.fontSizeSmall, st.height),
                    !.fontSizeNormal = scaledLegacy(defaultSettingsLegacy.fontSizeNormal, st.height),
                    !.fontSizeLarge = scaledLegacy(defaultSettingsLegacy.fontSizeLarge, st.height)]


(***************************************************************************)
(* Feed documents the upstream may answer with.  A payload (the XML text   *)
(* getSolarXml caches and returns) is held by name; parseString gives the  *)
(* document xml2js makes of it.                                            *)
(***************************************************************************)
tGood == <<"G", "o", "o", "d">>
tFair == <<"F", "a", "i", "r">>
tPoor == <<"P", "o", "o", "r">>
tClosed == <<"B", "a", "n", "d", " ", "C", "l", "o", "s", "e", "d">>
tDay == <<"d", "a", "y">>
tNight == <<"n", "i", "g", "h", "t">>
tBand80 == <<"8", "0", "m", "-", "4", "0", "m">>
tBand30 == <<"3", "0", "m", "-", "2", "0", "m">>
tESkip == <<"E", "-", "S", "k", "i", "p">>
tEurope == <<"e", "u", "r", "o", "p", "e">>
tVhfAurora == <<"v", "h", "f", "-", "a", "u", "r", "o", "r", "a">>
tNorthernHemi == <<"n", "o", "r", "t", "h", "e", "r", "n", "_", "h", "e", "m", "i">>
tSource == <<"N", "0", "N", "B", "H">>

\* <band name=".." time="..">text</band>
Band(name, time, text) == Entry(Str(text), Attrs(Str(name), Str(time)))

BaseLeaf(f) ==
    IF f = "source" THEN Arr(<<Obj(Str(tSource))>>)
    ELSE Arr(<<Str(<<"1", "2", "0">>)>>)

BaseCc == Arr(<<Elem(Arr(<<Band(tBand80, tDay, tGood), Band(tBand80, tNight, tFair),
                           Band(tBand30, tDay, tPoor)>>))>>)

BaseVhf == Arr(<<Elem(Arr(<<Band(tVhfAurora, tNorthernHemi, tClosed),
                            Band(tESkip, tEurope, tGood)>>))>>)

\* a complete, well-formed feed
BaseDoc ==
    [env |-> "ok", leaf |-> [f \in FieldNames |-> BaseLeaf(f)], cc |-> BaseCc, vhf |-> BaseVhf]

\* a document of another type: HTTP 200 with a body that has no <solar> root
NoRootDoc ==
    [env |-> "noroot", leaf |-> [f \in FieldNames |-> Undef], cc |-> Undef, vhf |-> Undef]

\* the bodies response.text() yields in the server specification
FeedNames == {"feedA", "notFeed"}

\* xmlParser.parseString(xmlData): feedA is the well-formed feed, notFeed is
\* an HTTP-OK body of another document type
parseString(name) == IF name = "notFeed" THEN NoRootDoc ELSE BaseDoc

\* whether parseSolarXml returns a record, for every payload and per program
parseTable ==
    [v \in {"server", "legacy"} |->
        [name \in FeedNames |-> parseSolarXml(v, parseString(name)).ok]]

parses(v, name) == parseTable[v][name]

(***************************************************************************)
(* The server: the feed cache, the settings object, the requests in        *)
(* flight and the response of the current turn.                            *)
(***************************************************************************)
VARIABLES
    variant,    \* which program of the repository runs: "server" | "legacy"
    clock,      \* ticks of Date.now() since the process started
    lastData,   \* the cached payload, Null before the first successful fetch
    lastFetch,  \* Date.now() of the last successful fetch, 0 initially
    settings,   \* the process-wide settings object
    reqs,       \* per request slot: where its handler is suspended
    resp,       \* the response sent in the current turn, with what its handler did
    lastOk,     \* history: the body of the latest successful fetch, Null if none
    feed,       \* parser specification: the document under parse
    parsed,     \* parser specification: what parseSolarXml returned or threw
    canvas      \* renderer specification: the drawing calls of the render

vars == <<variant, clock, lastData, lastFetch, settings, reqs, resp, lastOk,
          feed, parsed, canvas>>

\* the JavaScript null a payload variable holds before the first fetch
Null == "null"

NoDoc == [env |-> "none"]

NotParsed == [ok |-> FALSE, err |-> "not parsed"]

\* server.js: const cacheInterval = 5 * 60 * 1000
cacheInterval == 5 * 60 * 1000

NumReqs == 2
MaxTicks == 2
TickMs == 300000
StartTime == 1000000

Reqs == 1..NumReqs

\* Date.now()
Now == StartTime + clock * TickMs

\* the query strings of the server specification's requests
qDefault == Query(Undef, Undef, Undef, Undef, Undef)
qSmall == Query(s0, s1, Str(<<"4", "0", "0">>), Str(<<"2", "4", "0">>), Undef)
qBw == Query(Str(<<"2">>), Undef, Str(<<"6", "4", "0">>), Undef, s1)

RequestInputs ==
    {[endpoint |-> "json", query |-> qDefault],
     [endpoint |-> "png", query |-> qSmall],
     [endpoint |-> "canvas", query |-> qBw],
     [endpoint |-> "root", query |-> qSmall]}

Idle == [pc |-> "idle"]

\* some fetch has completed successfully
EverOk == lastOk # Null

NoResp == [req |-> 0]

NoCanvas == <<>>

NoRender == [t |-> "none"]

\* needsFetch with the interval's last millisecond counted as expired
needsFetchInclusive(data, fetchedAt, now) == data = Null \/ now - fetchedAt >= cacheInterval

\* getSolarXml: if (lastData == null || Date.now() - lastFetch > cacheInterval)
needsFetch(data, fetchedAt, now) == data = Null \/ now - fetchedAt > cacheInterval

\* getSolarXml's catch block once the fetch has failed.
\* server.js: rethrow only when nothing is cached, else fall through to
\* `return lastData`; part_000: always rethrow.
afterFetchError(v, data) ==
    IF v = "server"
    THEN (IF data = Null THEN Throw("fetch") ELSE Return(data))
    ELSE Throw("fetch")

\* whether the handler of this endpoint goes on to renderSolarCanvas
Renders(endpoint) == endpoint \in {"canvas", "png"}

\* a handler whose try block lets an error of the drawing surface pass as a
\* success
outcomeRenderErrorIgnored(v, endpoint, st, surface, parsedOk) ==
    [status |-> IF ~parsedOk THEN 500 ELSE 200,
     body |-> CASE ~parsedOk /\ endpoint = "json" -> "error-json"
                [] ~parsedOk /\ endpoint # "json" -> "error-text"
                [] parsedOk /\ endpoint = "json" -> "record"
                [] parsedOk /\ endpoint = "canvas" -> "html"
                [] OTHER -> "png",
     parsedOk |-> parsedOk,
     surfaceFailed |-> Renders(endpoint) /\ parsedOk /\ surface # "ok",
     rendered |-> NoRender,
     settings |-> st]

\* The rest of a /solar/* handler once getSolarXml has settled with `got`:
\* parseSolarXml, then for /solar/canvas and /solar/png renderSolarCanvas on
\* the settings object as it is now, then the response.  surface is what the
\* drawing surface does: "ok", or it throws in "createCanvas" or in "draw".
outcome(v, endpoint, st, surface, parsedOk) ==
    LET renders == Renders(endpoint) /\ parsedOk
        drawn == renders /\ surface # "createCanvas"
        failed == ~parsedOk \/ (renders /\ surface # "ok")
    IN  [status |-> IF failed THEN 500 ELSE 200,
         body |-> CASE failed /\ endpoint = "json" -> "error-json"
                    [] failed /\ endpoint # "json" -> "error-text"
                    [] ~failed /\ endpoint = "json" -> "record"
                    [] ~failed /\ endpoint = "canvas" -> "html"
                    [] OTHER -> "png",
         parsedOk |-> parsedOk,
         surfaceFailed |-> renders /\ surface # "ok",
         rendered |-> IF drawn THEN ConfigOf(st) ELSE NoRender,
         settings |-> IF drawn THEN withFontSizes(v, st) ELSE st]

handlerOutcome(v, endpoint, got, st, surface) ==
    outcome(v, endpoint, st, surface, got.ok /\ parses(v, got.val))

Surfaces == {"ok", "createCanvas", "draw"}

\* the response of request slot r, with what its handler did:
\*   priorOk       a fetch had succeeded before the request arrived
\*   fetch         "none", "ok" or "failed": the request's own fetch attempt
\*   cachedBefore  lastData when getSolarXml settled
\*   threw         getSolarXml threw;  payload: what it returned
\*   surfaceFailed the drawing surface threw during the render
\*   rendered      the configuration renderSolarCanvas drew with
Response(r, endpoint, query, priorOk, got, fetch, before, out) ==
    [req |-> r, endpoint |-> endpoint, query |-> query,
     priorOk |-> priorOk, fetch |-> fetch, cachedBefore |-> before,
     threw |-> ~got.ok, payload |-> IF got.ok THEN got.val ELSE Null,
     status |-> out.status, body |-> out.body, parsedOk |-> out.parsedOk,
     surfaceFailed |-> out.surfaceFailed, rendered |-> out.rendered]

\* the handler ends: renderSolarCanvas has left its font sizes in the
\* settings object, the response is sent
Answer(r, endpoint, query, priorOk, got, fetch, out) ==
    /\ settings' = out.settings
    /\ resp' = Response(r, endpoint, query, priorOk, got, fetch, lastData, out)

Init ==
    /\ variant \in Variants
    /\ clock = 0
    /\ lastData = Null
    /\ lastFetch = 0
    /\ settings = defaultSettings(variant)
    /\ reqs = [r \in Reqs |-> Idle]
    /\ resp = NoResp
    /\ lastOk = Null
    /\ feed = NoDoc
    /\ parsed = NotParsed
    /\ canvas = NoCanvas

\* Date.now() advances
Tick ==
    /\ resp = NoResp
    /\ clock < MaxTicks
    /\ clock' = clock + 1
    /\ UNCHANGED <<variant, lastData, lastFetch, settings, reqs, resp, lastOk,
                   feed, parsed, canvas>>

\* the turn that sent a response ends
EndTurn ==
    /\ resp # NoResp
    /\ resp' = NoResp
    /\ UNCHANGED <<variant, clock, lastData, lastFetch, settings, reqs, lastOk,
                   feed, parsed, canvas>>

\* GET / : the middleware runs, then the redirect to /solar/canvas
ArriveRoot(r, in) ==
    /\ resp = NoResp
    /\ reqs[r].pc = "idle"
    /\ in.endpoint = "root"
    /\ settings' = middleware(variant, settings, in.query)
    /\ resp' = [req |-> r, endpoint |-> "root", query |-> in.query,
                priorOk |-> EverOk, fetch |-> "none", cachedBefore |-> lastData,
                threw |-> FALSE, payload |-> Null, status |-> 302,
                body |-> "redirect", parsedOk |-> FALSE, surfaceFailed |-> FALSE,
                rendered |-> NoRender]
    /\ UNCHANGED <<variant, clock, lastData, lastFetch, reqs, lastOk,
                   feed, parsed, canvas>>

\* GET /solar/* with a fresh payload cached: the middleware, getSolarXml
\* returning lastData without a fetch, and the whole handler in one turn
ArriveCached(r, in, surface) ==
    /\ resp = NoResp
    /\ reqs[r].pc = "idle"
    /\ in.endpoint # "root"
    /\ ~needsFetch(lastData, lastFetch, Now)
    /\ Answer(r, in.endpoint, in.query, EverOk, Return(lastData), "none",
              handlerOutcome(variant, in.endpoint, Return(lastData),
                             middleware(variant, settings, in.query), surface))
    /\ UNCHANGED <<variant, clock, lastData, lastFetch, reqs, lastOk,
                   feed, parsed, canvas>>

\* GET /solar/* with nothing cached or the payload expired: the middleware,
\* then getSolarXml suspends at `await fetch(xmlUrl)`
ArriveFetch(r, in) ==
    /\ resp = NoResp
    /\ reqs[r].pc = "idle"
    /\ in.endpoint # "root"
    /\ needsFetch(lastData, lastFetch, Now)
    /\ settings' = middleware(variant, settings, in.query)
    /\ reqs' = [reqs EXCEPT ![r] = [pc |-> "awaitFetch", endpoint |-> in.endpoint,
                                    query |-> in.query, priorOk |-> EverOk]]
    /\ UNCHANGED <<variant, clock, lastData, lastFetch, resp, lastOk,
                   feed, parsed, canvas>>

\* fetch resolves with response.ok: getSolarXml suspends at response.text()
FetchResponds(r) ==
    /\ resp = NoResp
    /\ reqs[r].pc = "awaitFetch"
    /\ reqs' = [reqs EXCEPT ![r].pc = "awaitText"]
    /\ UNCHANGED <<variant, clock, lastData, lastFetch, settings, resp, lastOk,
                   feed, parsed, canvas>>

\* FetchFails with a catch block that stamps lastFetch to hold off retries
FetchFailsStamping(r, surface) ==
    /\ resp = NoResp
    /\ reqs[r].pc \in {"awaitFetch", "awaitText"}
    /\ lastFetch' = Now
    /\ Answer(r, reqs[r].endpoint, reqs[r].query, reqs[r].priorOk,
              afterFetchError(variant, lastData), "failed",
              handlerOutcome(variant, reqs[r].endpoint,
                             afterFetchError(variant, lastData), settings, surface))
    /\ reqs' = [reqs EXCEPT ![r] = Idle]
    /\ UNCHANGED <<variant, clock, lastData, lastOk, feed, parsed, canvas>>

\* FetchFails with a catch block that drops the cached payload
FetchFailsClearing(r, surface) ==
    /\ resp = NoResp
    /\ reqs[r].pc \in {"awaitFetch", "awaitText"}
    /\ lastData' = Null
    /\ Answer(r, reqs[r].endpoint, reqs[r].query, reqs[r].priorOk,
              afterFetchError(variant, lastData), "failed",
              handlerOutcome(variant, reqs[r].endpoint,
                             afterFetchError(variant, lastData), settings, surface))
    /\ reqs' = [reqs EXCEPT ![r] = Idle]
    /\ UNCHANGED <<variant, clock, lastFetch, lastOk, feed, parsed, canvas>>

\* FetchFails with negative caching: a failed refresh of a cached payload
\* stamps lastFetch, so the stale payload counts as fresh again
FetchFailsBackoff(r, surface) ==
    /\ resp = NoResp
    /\ reqs[r].pc \in {"awaitFetch", "awaitText"}
    /\ lastFetch' = (IF lastData # Null THEN Now ELSE lastFetch)
    /\ Answer(r, reqs[r].endpoint, reqs[r].query, reqs[r].priorOk,
              afterFetchError(variant, lastData), "failed",
              handlerOutcome(variant, reqs[r].endpoint,
                             afterFetchError(variant, lastData), settings, surface))
    /\ reqs' = [reqs EXCEPT ![r] = Idle]
    /\ UNCHANGED <<variant, clock, lastData, lastOk, feed, parsed, canvas>>

\* the fetch fails: it rejects (network error), answers a non-OK status, or
\* response.text() rejects; the catch block, then the rest of the handler
FetchFails(r, surface) ==
    /\ resp = NoResp
    /\ reqs[r].pc \in {"awaitFetch", "awaitText"}
    /\ Answer(r, reqs[r].endpoint, reqs[r].query, reqs[r].priorOk,
              afterFetchError(variant, lastData), "failed",
              handlerOutcome(variant, reqs[r].endpoint,
                             afterFetchError(variant, lastData), settings, surface))
    /\ reqs' = [reqs EXCEPT ![r] = Idle]
    /\ UNCHANGED <<variant, clock, lastData, lastFetch, lastOk, feed, parsed, canvas>>

\* TextArrives with the time stamp left to a later turn: the payload is
\* cached, lastFetch is not written
TextArrivesUnstamped(r, name, surface) ==
    /\ resp = NoResp
    /\ reqs[r].pc = "awaitText"
    /\ lastData' = name
    /\ lastOk' = name
    /\ Answer(r, reqs[r].endpoint, reqs[r].query, reqs[r].priorOk, Return(name), "ok",
              handlerOutcome(variant, reqs[r].endpoint, Return(name), settings, surface))
    /\ reqs' = [reqs EXCEPT ![r] = Idle]
    /\ UNCHANGED <<variant, clock, lastFetch, feed, parsed, canvas>>

\* TextArrives with a check before the cache is written: a body that does
\* not parse is handed to the request that fetched it, the cache keeps what
\* it has
TextArrivesValidated(r, name, surface) ==
    /\ resp = NoResp
    /\ reqs[r].pc = "awaitText"
    /\ lastData' = (IF parses(variant, name) THEN name ELSE lastData)
    /\ lastFetch' = (IF parses(variant, name) THEN Now ELSE lastFetch)
    /\ lastOk' = lastData'
    /\ Answer(r, reqs[r].endpoint, reqs[r].query, reqs[r].priorOk, Return(name), "ok",
              handlerOutcome(variant, reqs[r].endpoint, Return(name), settings, surface))
    /\ reqs' = [reqs EXCEPT ![r] = Idle]
    /\ UNCHANGED <<variant, clock, feed, parsed, canvas>>

\* response.text() resolves with body `name`: the cache is replaced and
\* stamped, getSolarXml returns lastData, then the rest of the handler
TextArrives(r, name, surface) ==
    /\ resp = NoResp
    /\ reqs[r].pc = "awaitText"
    /\ lastData' = name
    /\ lastFetch' = Now
    /\ lastOk' = name
    /\ Answer(r, reqs[r].endpoint, reqs[r].query, reqs[r].priorOk, Return(name), "ok",
              handlerOutcome(variant, reqs[r].endpoint, Return(name), settings, surface))
    /\ reqs' = [reqs EXCEPT ![r] = Idle]
    /\ UNCHANGED <<variant, clock, feed, parsed, canvas>>

Next ==
    \/ Tick
    \/ EndTurn
    \/ \E r \in Reqs, in \in RequestInputs : ArriveRoot(r, in)
    \/ \E r \in Reqs, in \in RequestInputs, surface \in Surfaces : ArriveCached(r, in, surface)
    \/ \E r \in Reqs, in \in RequestInputs : ArriveFetch(r, in)
    \/ \E r \in Reqs : FetchResponds(r)
    \/ \E r \in Reqs, surface \in Surfaces : FetchFails(r, surface)
    \/ \E r \in Reqs, name \in FeedNames, surface \in Surfaces : TextArrives(r, name, surface)

Spec == Init /\ [][Next]_vars


(***************************************************************************)
(* Properties of the feed cache and the request handlers.                  *)
(***************************************************************************)
\* a response is being sent in this turn
Sent == resp # NoResp

FiveMinutesMs == 5 * 60 * 1000

\* C1: a request made after at least one successful fetch never ends in an
\* error thrown by getSolarXml, whatever the outcome of its own fetch.
C1_NoCacheErrorAfterSuccess ==
    (Sent /\ resp.priorOk) => ~resp.threw

\* C2: the image rendered for a request uses the width, height, mode, invert
\* and black-and-white values of that request's own query string.
C2_RenderUsesOwnQuery ==
    (Sent /\ resp.rendered # NoRender) => resp.rendered = OwnConfig(variant, resp.query)

\* C3: when a request's fetch attempt fails and a payload is cached,
\* getSolarXml returns that cached payload unchanged and the request is
\* answered with 200 (the drawing surface not failing).
C3_StaleServedWith200 ==
    (Sent /\ resp.fetch = "failed" /\ resp.cachedBefore # Null /\ ~resp.surfaceFailed)
        => (~resp.threw /\ resp.payload = resp.cachedBefore /\ resp.status = 200)

\* slot r takes a request in this step (and may answer it in the same turn)
Arrives(r) ==
    /\ reqs[r].pc = "idle"
    /\ \/ reqs'[r].pc # "idle"
       \/ resp = NoResp /\ resp' # NoResp /\ resp'.req = r

\* the request slot r takes in this step is for /solar/json, /canvas or /png
ArrivesForFeed(r) ==
    /\ Arrives(r)
    /\ IF reqs'[r].pc # "idle" THEN reqs'[r].endpoint # "root" ELSE resp'.endpoint # "root"

\* C4: a request attempts an upstream fetch if and only if no payload is
\* cached or more than five minutes have passed since the last successful
\* fetch; otherwise it performs no fetch and is served the cached payload.
C4_FetchIffDue ==
    [][\A r \in Reqs :
          ArrivesForFeed(r) =>
             /\ (reqs'[r].pc = "awaitFetch")
                  <=> (lastData = Null \/ Now - lastFetch > FiveMinutesMs)
             /\ reqs'[r].pc = "idle" =>
                  (resp'.fetch = "none" /\ resp'.payload = lastData /\ ~resp'.threw)]_vars

\* C4 witness: a request served from the cache exactly five minutes after
\* the fetch, without a fetch of its own
C4_Witness ==
    /\ Sent /\ resp.endpoint # "root" /\ resp.fetch = "none"
    /\ Now - lastFetch = FiveMinutesMs
    /\ resp.payload = lastData

\* C5: payload and timestamp change only in the step that completes a
\* successful fetch, which sets both (the payload to the fetched body, the
\* timestamp to the current time); every other step, a failed fetch or a
\* failing parse or render included, leaves both unchanged.
C5_CacheWrittenOnlyBySuccess ==
    [][/\ (lastData' # lastData \/ lastFetch' # lastFetch)
            => (resp' # NoResp /\ resp'.fetch = "ok")
       /\ (resp = NoResp /\ resp' # NoResp /\ resp'.fetch = "ok")
            => (lastData' = resp'.payload /\ lastFetch' = Now)]_vars

\* C5 witness: a failed fetch answered 500 (the handler failed after the
\* catch block) while a stamped payload stays cached
C5_Witness ==
    /\ Sent /\ resp.fetch = "failed" /\ resp.status = 500
    /\ lastData # Null /\ lastFetch > 0 /\ lastFetch < Now

\* C6: with fetches racing, the cache holds nothing before the first
\* successful fetch and afterwards the body of the successful fetch that
\* completed last; a failing fetch never overwrites or clears it.
C6_LastSuccessfulWriterWins ==
    lastData = lastOk

\* C6 witness: a request that started its fetch on an empty cache fails after
\* a concurrent fetch has succeeded, and that fetch's body is still cached
C6_Witness ==
    /\ Sent /\ resp.fetch = "failed" /\ ~resp.priorOk
    /\ lastData # Null /\ lastData = lastOk


(***************************************************************************)
(* The parser specification: parseSolarXml, and the /solar/json body made  *)
(* of its record, on every document of ParseDocs.                          *)
(***************************************************************************)
LeafShapes ==
    {Undef,
     Arr(<<>>),
     Arr(<<Str(<<>>)>>),
     Arr(<<Str(<<"1", "2", "0">>)>>),
     Arr(<<Str(<<"a", "b", "c">>)>>),
     Arr(<<Str(<<"1", "2", "x">>)>>),
     Arr(<<Str(<<" ", "-", "7">>)>>),
     Arr(<<Str(<<"1", ".", "5", "0">>)>>),
     Arr(<<Obj(Str(tSource))>>)}

\* shapes of a condition collection: absent; an empty tag; the base table;
\* an entry without attributes; an entry without a name attribute; an entry
\* without text; a (name, key) pair given twice; names that are integers
CondShapes ==
    {Undef,
     Arr(<<Str(<<>>)>>),
     BaseCc,
     Arr(<<Elem(Arr(<<Band(tBand80, tDay, tGood), Str(tFair)>>))>>),
     Arr(<<Elem(Arr(<<Entry(Str(tGood), Attrs(Undef, Str(tDay)))>>))>>),
     Arr(<<Elem(Arr(<<Entry(Undef, Attrs(Str(tBand80), Str(tDay)))>>))>>),
     Arr(<<Elem(Arr(<<Band(tBand80, tDay, tGood), Band(tBand30, tDay, tFair),
                      Band(tBand80, tDay, tPoor)>>))>>),
     Arr(<<Elem(Arr(<<Band(tBand80, tDay, tGood), Band(<<"2", "0">>, tDay, tFair),
                      Band(<<"1", "0">>, tNight, tPoor)>>))>>)}

DocWith(f, shape, cc, vhf) ==
    [env |-> "ok",
     leaf |-> [x \in FieldNames |-> IF x = f THEN shape ELSE BaseLeaf(x)],
     cc |-> cc, vhf |-> vhf]

EnvelopeDoc(env) ==
    [env |-> env, leaf |-> [x \in FieldNames |-> Undef], cc |-> Undef, vhf |-> Undef]

ParseDocs ==
    {EnvelopeDoc(e) : e \in {"notxml", "noroot", "nosolardata", "empty"}}
    \cup {DocWith(f, shape, BaseCc, BaseVhf) : f \in FieldNames, shape \in LeafShapes}
    \cup {DocWith("aurora", shape, cc, vhf) :
            shape \in {Undef, Arr(<<Str(<<"3">>)>>)}, cc \in CondShapes,
            vhf \in {Undef, BaseVhf, Arr(<<Elem(Arr(<<Str(tClosed)>>))>>)}}

\* the body res.json(solarData) writes for the scalar fields
jsonBody(rec) ==
    [f \in FieldNames |->
        [kind |-> JsonOf(rec.f[f]),
         text |-> IF rec.f[f].t = "str" THEN rec.f[f].s ELSE <<>>]]

InitParse ==
    /\ variant \in Variants
    /\ feed \in ParseDocs
    /\ parsed = NotParsed
    /\ clock = 0
    /\ lastData = Null
    /\ lastFetch = 0
    /\ settings = defaultSettings(variant)
    /\ reqs = [r \in Reqs |-> Idle]
    /\ resp = NoResp
    /\ lastOk = Null
    /\ canvas = NoCanvas

\* parseSolarXml on the payload getSolarXml returned
ParseFeed ==
    /\ parsed = NotParsed
    /\ parsed' = parseSolarXml(variant, feed)
    /\ UNCHANGED <<variant, clock, lastData, lastFetch, settings, reqs, resp, lastOk,
                   feed, canvas>>

\* the /solar/json handler after parseSolarXml settled: res.json(solarData),
\* or status 500 with the fixed error body
SendJson ==
    /\ parsed # NotParsed
    /\ resp = NoResp
    /\ resp' = IF parsed.ok
               THEN [req |-> 1, endpoint |-> "json", status |-> 200,
                     json |-> jsonBody(parsed.val)]
               ELSE [req |-> 1, endpoint |-> "json", status |-> 500]
    /\ UNCHANGED <<variant, clock, lastData, lastFetch, settings, reqs, lastOk,
                   feed, parsed, canvas>>

NextParse == ParseFeed \/ SendJson

SpecParse == InitParse /\ [][NextParse]_vars

\* the field is entirely missing from the document
Missing(doc, f) == doc.env = "ok" /\ doc.leaf[f] = Undef

WasParsed == parsed # NotParsed

\* C7: for a document with the solardata envelope, a scalar field that is
\* entirely missing does not make parsing fail: the record holds "N/A" for
\* it and the /solar/json body carries the string "N/A" (not null, not
\* omitted).
C7_MissingFieldIsNA ==
    \A f \in FieldNames :
        (HasEnvelope(feed) /\ Missing(feed, f)) =>
            /\ WasParsed => (parsed.ok /\ parsed.val.f[f] = NA)
            /\ Sent => (resp.status = 200 /\ resp.json[f].kind = "string"
                         /\ resp.json[f].text = <<"N", "/", "A">>)

\* the integer- and float-typed scalar fields the claim lists
C8_NumericFields ==
    {"solarflux", "aindex", "kindex", "sunspots", "protonflux", "electonflux",
     "aurora", "heliumline", "normalization", "latdegree", "solarwind",
     "magneticfield"}

\* C8: in every record parseSolarXml produces, each integer- or float-typed
\* scalar field is a valid number or the sentinel "N/A".
C8_NumberOrNA ==
    (WasParsed /\ parsed.ok) =>
        \A f \in C8_NumericFields : IsNum(parsed.val.f[f]) \/ parsed.val.f[f] = NA

\* C9: parseSolarXml fails only if the document lacks the solar/solardata
\* envelope: every document that has it parses to a record.
C9_FailsOnlyWithoutEnvelope ==
    (WasParsed /\ HasEnvelope(feed)) => parsed.ok


(***************************************************************************)
(* The layout engine: renderSolarCanvas as the sequence of drawing calls   *)
(* it issues.  A call is                                                   *)
(*   [op |-> "fillRect" | "fillText" | "stroke", at |-> the place in the   *)
(*    layout, label |-> a fixed text, text |-> a text taken from the       *)
(*    record, style |-> the fillStyle / strokeStyle in force]              *)
(***************************************************************************)
\* server.js theme
themeServer ==
    [normal |-> [background |-> "#000000", title |-> "#cccccc", subtitle |-> "#aaaaaa",
                 text |-> "#ffffff", separator |-> "#555555", good |-> "#00ff00",
                 green |-> "#00ff00", fair |-> "#FFA500", poor |-> "#ff0000"],
     invert |-> [background |-> "#ffffff", title |-> "#555", subtitle |-> "#666",
                 text |-> "#000000", separator |-> "#555555", good |-> "#00ff00",
                 green |-> "#000000", fair |-> "#FFA500", poor |-> "#ff0000"],
     bw |-> [background |-> "#ffffff", title |-> "#000000", subtitle |-> "#333333",
             text |-> "#000000", separator |-> "#bbbbbb", good |-> "#000000",
             green |-> "#000000", fair |-> "#000000", poor |-> "#000000"]]

\* part_000 theme (no green, no bw palette)
themeLegacy ==
    [normal |-> [background |-> "#000000", title |-> "#cccccc", subtitle |-> "#aaaaaa",
                 text |-> "#ffffff", separator |-> "#555555", good |-> "#00ff00",
                 green |-> "", fair |-> "#ffff00", poor |-> "#ff0000"],
     invert |-> [background |-> "#ffffff", title |-> "#555", subtitle |-> "#666",
                 text |-> "#000000", separator |-> "#555555", good |-> "#00ff00",
                 green |-> "", fair |-> "#ffff00", poor |-> "#ff0000"]]

\* JavaScript truthiness of a value
Truthy(v) ==
    CASE v.t = "undef" -> FALSE
      [] v.t = "nan" -> FALSE
      [] v.t = "num" -> v.n # 0
      [] v.t = "str" -> v.s # <<>>
      [] OTHER -> TRUE

\* a palette selection that honours bw_mode only in mode 0
colorsOfBwInModeZero(v, st) ==
    IF v = "server"
    THEN (IF st.bw_mode = Num(1) /\ st.mode = Num(0) THEN themeServer.bw
          ELSE IF Truthy(st.invert) THEN themeServer.invert ELSE themeServer.normal)
    ELSE (IF Truthy(st.invert) THEN themeLegacy.invert ELSE themeLegacy.normal)

\* a palette selection that lets invert decide before bw_mode
colorsOfInvertFirst(v, st) ==
    IF v = "server"
    THEN (IF Truthy(st.invert) THEN themeServer.invert
          ELSE IF st.bw_mode = Num(1) /\ st.mode = Num(0) THEN themeServer.bw
          ELSE themeServer.normal)
    ELSE (IF Truthy(st.invert) THEN themeLegacy.invert ELSE themeLegacy.normal)

\* const colors = settings.bw_mode === 1 ? theme.bw
\*                  : (settings.invert ? theme.invert : theme.normal)
\* (part_000: settings.invert ? theme.invert : theme.normal)
colorsOf(v, st) ==
    IF v = "server"
    THEN (IF st.bw_mode = Num(1) THEN themeServer.bw
          ELSE IF Truthy(st.invert) THEN themeServer.invert ELSE themeServer.normal)
    ELSE (IF Truthy(st.invert) THEN themeLegacy.invert ELSE themeLegacy.normal)

tWordGood == <<"g", "o", "o", "d">>
tWordMidLatAur == <<"m", "i", "d", " ", "l", "a", "t", " ", "a", "u", "r">>
tWordFair == <<"f", "a", "i", "r">>
tWordPoor == <<"p", "o", "o", "r">>
tWordClosed == <<"c", "l", "o", "s", "e", "d">>

\* a classification that tests "fair" before "good"
setConditionColorFairFirst(v, st, condition) ==
    IF v = "server" /\ st.bw_mode = Num(1) THEN colorsOf(v, st).text
    ELSE IF st.mode = Num(0) THEN colorsOf(v, st).text
    ELSE IF includes(toLowerCase(condition), tWordFair) THEN colorsOf(v, st).fair
    ELSE IF includes(toLowerCase(condition), tWordGood) THEN colorsOf(v, st).good
    ELSE IF includes(toLowerCase(condition), tWordMidLatAur) THEN colorsOf(v, st).good
    ELSE IF includes(toLowerCase(condition), tWordPoor) THEN colorsOf(v, st).poor
    ELSE IF includes(toLowerCase(condition), tWordClosed) THEN colorsOf(v, st).poor
    ELSE colorsOf(v, st).text

\* setConditionColor(condition)
setConditionColor(v, st, condition) ==
    LET colors == colorsOf(v, st)
        lower == toLowerCase(condition)
    IN  IF v = "server" /\ st.bw_mode = Num(1) THEN colors.text
        ELSE IF st.mode = Num(0) THEN colors.text
        ELSE IF includes(lower, tWordGood) THEN colors.good
        ELSE IF includes(lower, tWordMidLatAur) THEN colors.good
        ELSE IF includes(lower, tWordFair) THEN colors.fair
        ELSE IF includes(lower, tWordPoor) THEN colors.poor
        ELSE IF includes(lower, tWordClosed) THEN colors.poor
        ELSE colors.text

\* server.js: the highlight pair of the top data blocks
highlightColor(st) ==
    IF st.bw_mode = Num(1) THEN "#000000"
    ELSE IF st.mode = Num(0) THEN "#555555" ELSE colorsOf("server", st).green

highlightTextColor(st) ==
    IF st.bw_mode = Num(1) THEN "#ffffff"
    ELSE IF st.mode = Num(0) THEN "#ffffff" ELSE colorsOf("server", st).background

Call(op, at, label, text, style) ==
    [op |-> op, at |-> at, label |-> label, text |-> text, style |-> style]

\* server.js drawConditionCell: a condition containing "good" gets a filled
\* rectangle and the highlight text colour, any other the colour
\* setConditionColor gives; then the right-aligned text
drawConditionCell(st, condition, at) ==
    IF includes(toLowerCase(condition), tWordGood)
    THEN << Call("fillRect", at, "", condition,
                 IF st.bw_mode = Num(1) THEN "#000000"
                 ELSE IF st.mode = Num(0) THEN "#555555"
                 ELSE colorsOf("server", st).good),
            Call("fillText", at, "", condition,
                 IF st.bw_mode = Num(1) THEN "#ffffff" ELSE highlightTextColor(st)) >>
    ELSE << Call("fillText", at, "", condition, setConditionColor("server", st, condition)) >>

\* value || 'N/A'
OrNA(v) == IF Truthy(v) THEN v.s ELSE NA.s

\* data.calculatedvhfconditions?.[name]?.[key] || 'N/A'
lookup2(table, name, key) ==
    IF HasKey(table, name) THEN OrNA(Get(Get(table, name), key)) ELSE NA.s

tEurope6m == <<"e", "u", "r", "o", "p", "e", "_", "6", "m">>
tEurope4m == <<"e", "u", "r", "o", "p", "e", "_", "4", "m">>
tNorthAmerica == <<"n", "o", "r", "t", "h", "_", "a", "m", "e", "r", "i", "c", "a">>

\* the vhfConditions array: label and value
vhfConditions(data) ==
    << [label |-> "Aurora:",
        value |-> lookup2(data.calculatedvhfconditions, tVhfAurora, tNorthernHemi)],
       [label |-> "6m EsEU:",
        value |-> lookup2(data.calculatedvhfconditions, tESkip, tEurope6m)],
       [label |-> "4m EsEU:",
        value |-> lookup2(data.calculatedvhfconditions, tESkip, tEurope4m)],
       [label |-> "2m EsEU:",
        value |-> lookup2(data.calculatedvhfconditions, tESkip, tEurope)],
       [label |-> "2m EsNA:",
        value |-> lookup2(data.calculatedvhfconditions, tESkip, tNorthAmerica)] >>

RECURSIVE Flatten(_)
Flatten(seqs) == IF seqs = <<>> THEN <<>> ELSE Head(seqs) \o Flatten(Tail(seqs))


\* the three highlighted blocks of row 1: label, filled box, value
topBlock(st, colors, at, label, value) ==
    << Call("fillText", at, label, <<>>, colors.subtitle),
       Call("fillRect", at, "", ToText(value), highlightColor(st)),
       Call("fillText", at, "", ToText(value), highlightTextColor(st)) >>

\* a label and its value of rows 2 to 4 and of the right column
labelled(colors, at, label, text) ==
    << Call("fillText", at, label, <<>>, colors.subtitle),
       Call("fillText", at, "", text, colors.text) >>

tKmS == <<" ", "k", "m", "/", "s">>

\* one row of the HF table of server.js: the band name and the two cells
hfRow(st, colors, entry) ==
    << Call("fillText", "hf.band", "", entry.k \o <<":">>, colors.subtitle) >>
    \o drawConditionCell(st, OrNA(Get(entry.v, tDay)), "hf.day")
    \o drawConditionCell(st, OrNA(Get(entry.v, tNight)), "hf.night")

\* one row of the HF table of part_000
hfRowLegacy(st, colors, entry) ==
    LET day == OrNA(Get(entry.v, tDay))
        night == OrNA(Get(entry.v, tNight))
    IN  << Call("fillText", "hf.band", "", entry.k \o <<":">>, colors.subtitle),
           Call("fillText", "hf.day", "", day, setConditionColor("legacy", st, day)),
           Call("fillText", "hf.night", "", night, setConditionColor("legacy", st, night)) >>

\* one entry of the VHF / EME list
vhfRow(v, st, colors, c) ==
    << Call("fillText", "vhf.label", c.label, <<>>, colors.subtitle),
       Call("fillText", "vhf.value", "", trim(c.value), setConditionColor(v, st, c.value)) >>

\* server.js renderSolarCanvas(data) on the settings object st
renderSolarCanvasServer(st, data) ==
    LET colors == colorsOf("server", st)
        f == data.f
        hf == data.calculatedconditions
        vhf == vhfConditions(data)
    IN  << Call("fillRect", "background", "", <<>>, colors.background),
           Call("fillText", "header", "Solar Terrestrial Data", <<>>, colors.title),
           Call("fillText", "subtitle", "<utc time>", <<>>, colors.subtitle),
           Call("stroke", "separator.top", "", <<>>, colors.separator) >>
        \o topBlock(st, colors, "sfi", "SFI:", f["solarflux"])
        \o topBlock(st, colors, "sunspots", "Sunspots:", f["sunspots"])
        \o topBlock(st, colors, "snr", "S/N Ratio:", f["signalnoise"])
        \o labelled(colors, "kindex", "K Index:", ToText(f["kindex"]))
        \o labelled(colors, "solarwind", "Solar Wind:", ToText(f["solarwind"]) \o tKmS)
        \o labelled(colors, "xray", "X-Ray:", ToText(f["xray"]))
        \o labelled(colors, "aurora", "Aurora:", ToText(f["aurora"]))
        \o labelled(colors, "protonflux", "Proton Flux:", ToText(f["protonflux"]))
        \o labelled(colors, "heliumline", "Helium Line:", ToText(f["heliumline"]))
        \o labelled(colors, "magneticfield", "Mag Fld:", ToText(f["magneticfield"]))
        \o labelled(colors, "geomagfield", "Geo Fld:", ToText(f["geomagfield"]))
        \o labelled(colors, "latdegree", "Lat Deg:", ToText(f["latdegree"]))
        \o << Call("stroke", "separator.mid", "", <<>>, colors.separator),
              Call("fillText", "hf.title", "HF Band Conditions", <<>>, colors.title),
              Call("fillText", "hf.head", "Band:", <<>>, colors.subtitle),
              Call("fillText", "hf.head", "Day", <<>>, colors.subtitle),
              Call("fillText", "hf.head", "Night", <<>>, colors.subtitle) >>
        \o Flatten([i \in 1..Len(hf) |-> hfRow(st, colors, hf[i])])
        \o << Call("fillText", "vhf.title", "VHF / EME Conditions", <<>>, colors.title) >>
        \o Flatten([i \in 1..Len(vhf) |-> vhfRow("server", st, colors, vhf[i])])
        \o labelled(colors, "muf", "MUF: ", ToText(f["muf"]))
        \o labelled(colors, "normalization", "Norm: ", ToText(f["normalization"]))
        \o labelled(colors, "aindex", "A Index: ", ToText(f["aindex"]))
        \o labelled(colors, "electonflux", "Elec Flux: ", ToText(f["electonflux"]))

\* part_000 renderSolarCanvas(data) on the settings object st
renderSolarCanvasLegacy(st, data) ==
    LET colors == colorsOf("legacy", st)
        f == data.f
        hf == data.calculatedconditions
        vhf == vhfConditions(data)
    IN  << Call("fillRect", "background", "", <<>>, colors.background),
           Call("fillText", "header", "Solar Terrestrial Data", <<>>, colors.title),
           Call("fillText", "subtitle", "<utc time>", <<>>, colors.subtitle),
           Call("stroke", "separator.top", "", <<>>, colors.separator) >>
        \o labelled(colors, "sfi", "SFI:", ToText(f["solarflux"]))
        \o labelled(colors, "sunspots", "Sunspots:", ToText(f["sunspots"]))
        \o labelled(colors, "snr", "Sig Noise:", ToText(f["signalnoise"]))
        \o labelled(colors, "kindex", "K Index:", ToText(f["kindex"]))
        \o labelled(colors, "solarwind", "Solar Wind:", ToText(f["solarwind"]) \o tKmS)
        \o labelled(colors, "xray", "X-Ray:", ToText(f["xray"]))
        \o labelled(colors, "aurora", "Aurora:", ToText(f["aurora"]))
        \o labelled(colors, "protonflux", "Proton Flux:", ToText(f["protonflux"]))
        \o labelled(colors, "heliumline", "Helium Line:", ToText(f["heliumline"]))
        \o labelled(colors, "magneticfield", "Mag Fld:", ToText(f["magneticfield"]))
        \o labelled(colors, "geomagfield", "Geo Fld:", ToText(f["geomagfield"]))
        \o labelled(colors, "latdegree", "Lat Deg:", ToText(f["latdegree"]))
        \o << Call("stroke", "separator.mid", "", <<>>, colors.separator),
              Call("fillText", "hf.title", "HF Band Conditions", <<>>, colors.title),
              Call("fillText", "hf.head", "Band     Day   Night", <<>>, colors.subtitle) >>
        \o Flatten([i \in 1..Len(hf) |-> hfRowLegacy(st, colors, hf[i])])
        \o << Call("fillText", "vhf.title", "VHF / EME Conditions", <<>>, colors.title) >>
        \o Flatten([i \in 1..Len(vhf) |-> vhfRow("legacy", st, colors, vhf[i])])
        \o labelled(colors, "muf", "MUF: ", ToText(f["muf"]))
        \o labelled(colors, "normalization", "Norm: ", ToText(f["normalization"]))
        \o labelled(colors, "aindex", "A Index: ", ToText(f["aindex"]))
        \o labelled(colors, "electonflux", "Elec Flx: ", ToText(f["electonflux"]))

renderSolarCanvas(v, st, data) ==
    IF v = "server" THEN renderSolarCanvasServer(st, data)
    ELSE renderSolarCanvasLegacy(st, data)


(***************************************************************************)
(* The renderer specification: a request's middleware run, then            *)
(* parseSolarXml and renderSolarCanvas on the settings object, for every   *)
(* document of RenderDocs and every query of RenderQueries.                *)
(***************************************************************************)
tMidLatAur == <<"M", "I", "D", " ", "L", "A", "T", " ", "A", "U", "R">>

tGoodMidLatAur ==
    <<"G", "o", "o", "d", ",", " ", "M", "i", "d", " ", "L", "a", "t", " ", "A", "u", "r">>

tPoorClosed == <<"P", "o", "o", "r", "/", "C", "l", "o", "s", "e", "d">>

tFairToGood == <<"F", "a", "i", "r", " ", "t", "o", " ", "G", "o", "o", "d">>

CondTexts ==
    {tGood, tFair, tPoor, tClosed, tMidLatAur, tGoodMidLatAur, tPoorClosed, tFairToGood}

RenderDoc(a, b) ==
    [env |-> "ok", leaf |-> [f \in FieldNames |-> BaseLeaf(f)],
     cc |-> Arr(<<Elem(Arr(<<Band(tBand80, tDay, a), Band(tBand80, tNight, b),
                             Band(tBand30, tDay, b)>>))>>),
     vhf |-> Arr(<<Elem(Arr(<<Band(tVhfAurora, tNorthernHemi, b),
                              Band(tESkip, tEurope, a)>>))>>)]

RenderDocs == {RenderDoc(a, b) : a \in CondTexts, b \in CondTexts}

RenderQueries ==
    {Query(mode, invert, Undef, height, bw) :
        mode \in {Undef, s0}, invert \in {Undef, s1},
        height \in {Undef, Str(<<"2", "4", "0">>)}, bw \in {Undef, s1}}

InitRender ==
    /\ variant \in Variants
    /\ feed \in RenderDocs
    /\ parsed = NotParsed
    /\ canvas = NoCanvas
    /\ settings = defaultSettings(variant)
    /\ clock = 0
    /\ lastData = Null
    /\ lastFetch = 0
    /\ reqs = [r \in Reqs |-> Idle]
    /\ resp = NoResp
    /\ lastOk = Null

\* a request for /solar/canvas or /solar/png arrives: the middleware writes
\* the settings object from its query string
Configure(q) ==
    /\ canvas = NoCanvas
    /\ parsed = NotParsed
    /\ settings' = middleware(variant, settings, q)
    /\ resp' = [req |-> 1, endpoint |-> "canvas", query |-> q]
    /\ UNCHANGED <<variant, clock, lastData, lastFetch, reqs, lastOk, feed, parsed,
                   canvas>>

\* the handler after getSolarXml settled: parseSolarXml, renderSolarCanvas
RenderCanvas ==
    /\ resp # NoResp
    /\ canvas = NoCanvas
    /\ parsed' = parseSolarXml(variant, feed)
    /\ canvas' = renderSolarCanvas(variant, settings, parsed'.val)
    /\ settings' = withFontSizes(variant, settings)
    /\ UNCHANGED <<variant, clock, lastData, lastFetch, reqs, resp, lastOk, feed>>

\* the response is sent; the process waits for the next request
Respond ==
    /\ canvas # NoCanvas
    /\ canvas' = NoCanvas
    /\ parsed' = NotParsed
    /\ resp' = NoResp
    /\ UNCHANGED <<variant, clock, lastData, lastFetch, settings, reqs, lastOk, feed>>

NextRender == (\E q \in RenderQueries : Configure(q)) \/ RenderCanvas \/ Respond

SpecRender == InitRender /\ [][NextRender]_vars

Drawn == canvas # NoCanvas

\* the black-and-white theme is in force
BwActive == settings.bw_mode = Num(1)

\* the places of the layout where a condition string is drawn
HfCells == {"hf.day", "hf.night"}
ConditionPlaces == HfCells \cup {"vhf.value"}

\* the positions of the canvas calls that draw the text of a condition string
ConditionTextCalls ==
    {i \in DOMAIN canvas : canvas[i].op = "fillText" /\ canvas[i].at \in ConditionPlaces}

SaysGood(text) == includes(toLowerCase(text), tWordGood)

\* C10 as stated: with the black-and-white theme in force, no two condition
\* strings are drawn with different text colours.
C10_SingleInk ==
    (Drawn /\ BwActive) =>
        \A i, j \in ConditionTextCalls : canvas[i].style = canvas[j].style

\* C10 amended: with the black-and-white theme in force every condition
\* string is drawn in the ink colour #000000 whatever it says, except the
\* cells of the HF table whose string contains "good": these are drawn
\* inverted, #ffffff on a rectangle filled #000000.
C10_InkExceptGoodCells ==
    (Drawn /\ BwActive) =>
        \A i \in ConditionTextCalls :
            IF canvas[i].at \in HfCells /\ SaysGood(canvas[i].text)
            THEN /\ canvas[i].style = "#ffffff"
                 /\ i > 1
                 /\ canvas[i - 1] = Call("fillRect", canvas[i].at, "", canvas[i].text, "#000000")
            ELSE canvas[i].style = "#000000"

\* a black-and-white render with a "good" HF cell, another HF cell and a
\* VHF entry that says "good"
C10_Witness ==
    /\ Drawn /\ BwActive
    /\ \E i, j, k \in ConditionTextCalls :
          /\ canvas[i].at \in HfCells /\ SaysGood(canvas[i].text)
          /\ canvas[j].at \in HfCells /\ ~SaysGood(canvas[j].text)
          /\ canvas[k].at = "vhf.value" /\ SaysGood(canvas[k].text)
          /\ canvas[i].style # canvas[j].style
          /\ canvas[k].style = canvas[j].style


(***************************************************************************)
(* The geometry of server.js renderSolarCanvas: the font sizes and the     *)
(* position of every drawing call, as the code computes them from          *)
(* settings.width and settings.height.  A place is                         *)
(*   [at |-> name, x |-> [anchor, off], y |-> pixels]                      *)
(* with x given from the left edge, from the middle (width / 2) or from    *)
(* the right edge (width) of the canvas; an x that depends on              *)
(* measureText is "measured" with the column start it is aligned to.       *)
(***************************************************************************)
\* Math.round(base * SCALE_FACTOR), SCALE_FACTOR = height / 480
R(base, h) == RoundDiv(base * h, defaultSettingsServer.height.n)

\* Math.round(n + spacing * hundredths / 100) for an integer n
RoundHundredths(n, spacing, hundredths) == RoundDiv(100 * n + hundredths * spacing, 100)

FromLeft(off) == [anchor |-> "left", off |-> off]
FromMiddle(off) == [anchor |-> "middle", off |-> off]
FromRight(off) == [anchor |-> "right", off |-> off]
Measured(off) == [anchor |-> "measured", off |-> off]

Place(at, x, y) == [at |-> at, x |-> x, y |-> y]

\* header, subtitle and the first separator (lines 283-301)
headPlaces(h, pad) ==
    << Place("header", FromLeft(pad), R(40, h)),
       Place("subtitle", FromLeft(pad), R(70, h)),
       Place("separator.top.from", FromLeft(pad), R(85, h)),
       Place("separator.top.to", FromRight(-pad), R(85, h)) >>

\* one block of row 1: label, box and value; textX = colX + OFFSET - 10,
\* the box starts at Math.round(textX - 4 * SCALE_FACTOR)
topPlaces(at, h, colX, offset, y, rectY) ==
    << Place(at \o ".label", FromLeft(colX), y),
       Place(at \o ".box", FromLeft(RoundDiv((colX + offset - 10) * 480 - 4 * h, 480)), rectY),
       Place(at \o ".value", FromLeft(colX + offset - 10), y) >>

\* one entry of tableData: label at col.x, value at col.x + col.xOffset
cellPlaces(at, colX, offset, y) ==
    << Place(at \o ".label", FromLeft(colX), y),
       Place(at \o ".value", FromLeft(colX + offset), y) >>

\* rows 1 to 4 (lines 303-397), yPos starting at y
gridPlaces(h, pad, fontNormal, spacing, y) ==
    topPlaces("sfi", h, pad, R(60, h), y, y - fontNormal + R(5, h) - R(4, h))
    \o topPlaces("sunspots", h, R(210, h), R(120, h), y, y - fontNormal + R(5, h) - R(4, h))
    \o topPlaces("snr", h, R(500, h), R(130, h), y, y - fontNormal + R(5, h) - R(4, h))
    \o cellPlaces("kindex", pad, R(90, h), y + spacing)
    \o cellPlaces("solarwind", R(210, h), R(130, h), y + spacing)
    \o cellPlaces("xray", R(500, h), R(70, h), y + spacing)
    \o cellPlaces("aurora", pad, R(80, h), y + 2 * spacing)
    \o cellPlaces("protonflux", R(210, h), R(140, h), y + 2 * spacing)
    \o cellPlaces("heliumline", R(500, h), R(140, h), y + 2 * spacing)
    \o cellPlaces("magneticfield", pad, R(90, h), y + 3 * spacing)
    \o cellPlaces("geomagfield", R(210, h), R(90, h), y + 3 * spacing)
    \o cellPlaces("latdegree", R(500, h), R(90, h), y + 3 * spacing)

\* one row of the HF table at y: the band name, the day and night cells
\* (right-aligned in a column of width HF_BAND_WIDTH) and the top of the
\* rectangle drawConditionCell fills behind a "good" cell
hfRowPlaces(h, pad, fontNormal, y) ==
    << Place("hf.band", FromLeft(pad), y),
       Place("hf.day", Measured(R(96, h) - 20 + R(80, h)), y),
       Place("hf.night", Measured(R(168, h) - 30 + R(80, h)), y),
       Place("hf.box", Measured(R(96, h) - 20 + R(80, h)), y - fontNormal + R(2, h)) >>

\* the second separator and the HF table (lines 399-448); yPos is the
\* value the row loop left, y the title line computed from it
hfPlaces(h, pad, fontNormal, spacing, yPos, y, bands) ==
    << Place("separator.mid.from", FromLeft(pad), RoundHundredths(yPos - spacing, spacing, 83)),
       Place("separator.mid.to", FromRight(-pad), RoundHundredths(yPos - spacing, spacing, 83)),
       Place("hf.title", FromLeft(pad), y),
       Place("hf.head.band", FromLeft(pad), y + spacing),
       Place("hf.head.day", FromLeft(R(96, h) + 16), y + spacing),
       Place("hf.head.night", FromLeft(R(168, h) + 2), y + spacing) >>
    \o Flatten([i \in 1..bands |->
                  hfRowPlaces(h, pad, fontNormal,
                              y + 2 * spacing + (i - 1) * RoundDiv(116 * spacing, 100))])

\* the x of the VHF list and of the right column: Math.round(width / 2 +
\* base * SCALE_FACTOR), from the middle of a canvas of even width
MiddleOff(w, base, h) == RoundDiv(w * 240 + base * h, 480) - w \div 2

\* the VHF / EME list (lines 451-480)
vhfPlaces(w, h, spacing) ==
    << Place("vhf.title", FromMiddle(MiddleOff(w, -100, h)), R(285, h)) >>
    \o Flatten([i \in 1..5 |->
                  << Place("vhf.label", FromMiddle(MiddleOff(w, -100, h)),
                           R(285, h) + spacing + (i - 1) * RoundDiv(113 * spacing, 100)),
                     Place("vhf.value", FromMiddle(MiddleOff(w, -100, h) + R(90, h)),
                           R(285, h) + spacing + (i - 1) * RoundDiv(113 * spacing, 100)) >>])

\* the right column (lines 483-502): currentYPos += LINE_SPACING + 3
linePlaces(w, h, spacing) ==
    [i \in 1..4 |-> Place("line.label", FromMiddle(MiddleOff(w, 160, h)),
                          R(315, h) + (i - 1) * (spacing + 3))]

placesFrom(w, h, bands, pad, fontNormal, spacing, y) ==
    headPlaces(h, pad)
    \o gridPlaces(h, pad, fontNormal, spacing, y)
    \o hfPlaces(h, pad, fontNormal, spacing, y + 4 * spacing,
                RoundHundredths(y + 3 * spacing, spacing, 233), bands)
    \o vhfPlaces(w, h, spacing)
    \o linePlaces(w, h, spacing)

\* the geometry of one render at width w and height h of a record with
\* `bands` HF bands
geometry(w, h, bands) ==
    [width |-> w, height |-> h,
     fontSizeSmall |-> R(defaultSettingsServer.fontSizeSmall.n, h),
     fontSizeNormal |-> R(defaultSettingsServer.fontSizeNormal.n, h),
     fontSizeLarge |-> R(defaultSettingsServer.fontSizeLarge.n, h),
     LINE_SPACING |-> R(defaultSettingsServer.LINE_SPACING_DEFAULT.n, h),
     BASE_PADDING |-> R(20, h),
     lineWidth |-> R(2, h),
     rectHeight |-> R(defaultSettingsServer.fontSizeNormal.n, h) + R(5, h),
     places |-> placesFrom(w, h, bands, R(20, h),
                           R(defaultSettingsServer.fontSizeNormal.n, h),
                           R(defaultSettingsServer.LINE_SPACING_DEFAULT.n, h), R(125, h))]


(***************************************************************************)
(* The layout specification: requests for /solar/png of server.js at the   *)
(* widths and heights of LayoutQueries, each rendered on the settings      *)
(* object; canvas holds the geometry of the latest render.  The heights    *)
(* keep LINE_SPACING off 50 (mod 100), where LINE_SPACING * 0.83 and the   *)
(* like fall on a half and the rounding of the binary fraction decides.    *)
(***************************************************************************)
LayoutHeights == {100, 120, 200, 240, 360, 480, 481, 600, 720, 960, 1440, 1920}

LayoutWidths == {400, 800, 1600}

\* the decimal text of a size in a query string
SizeText(n) == Str(DecimalText(n, 0))

LayoutQueries ==
    {Query(Undef, Undef, SizeText(w), SizeText(h), Undef) :
        w \in LayoutWidths, h \in LayoutHeights}

\* feeds with one, two and three HF bands
LayoutDoc(bands) ==
    [env |-> "ok", leaf |-> [f \in FieldNames |-> BaseLeaf(f)],
     cc |-> Arr(<<Elem(Arr(SubSeq(<<Band(tBand80, tDay, tGood), Band(tBand30, tDay, tFair),
                                    Band(tESkip, tDay, tPoor)>>, 1, bands)))>>),
     vhf |-> BaseVhf]

LayoutDocs == {LayoutDoc(n) : n \in 1..3}

InitLayout ==
    /\ variant = "server"
    /\ feed \in LayoutDocs
    /\ parsed = NotParsed
    /\ canvas = NoCanvas
    /\ settings = defaultSettings(variant)
    /\ clock = 0
    /\ lastData = Null
    /\ lastFetch = 0
    /\ reqs = [r \in Reqs |-> Idle]
    /\ resp = NoResp
    /\ lastOk = Null

\* the geometry renderSolarCanvas draws with on the settings object st
geometryOf(st, rec) ==
    geometry(st.width.n, st.height.n, Len(rec.calculatedconditions))

\* a request for /solar/png is served: the middleware, parseSolarXml and
\* renderSolarCanvas
RenderLayout(q) ==
    /\ parsed' = parseSolarXml(variant, feed)
    /\ canvas' = geometryOf(middleware(variant, settings, q), parsed'.val)
    /\ settings' = withFontSizes(variant, middleware(variant, settings, q))
    /\ resp' = [req |-> 1, endpoint |-> "png", query |-> q]
    /\ UNCHANGED <<variant, clock, lastData, lastFetch, reqs, lastOk, feed>>

NextLayout == \E q \in LayoutQueries : RenderLayout(q)

SpecLayout == InitLayout /\ [][NextLayout]_vars

\* the x of a place at height h is the scaled x of the baseline place
ScaledX(x, base, h) == x.anchor = base.anchor /\ x.off = R(base.off, h)

\* every size and place of geometry g is the rounded scaled value of the
\* baseline geometry b (the same render at height 480)
ScaledFrom(g, b) ==
    /\ g.fontSizeSmall = R(b.fontSizeSmall, g.height)
    /\ g.fontSizeNormal = R(b.fontSizeNormal, g.height)
    /\ g.fontSizeLarge = R(b.fontSizeLarge, g.height)
    /\ g.LINE_SPACING = R(b.LINE_SPACING, g.height)
    /\ g.BASE_PADDING = R(b.BASE_PADDING, g.height)
    /\ \A i \in DOMAIN g.places :
          /\ g.places[i].y = R(b.places[i].y, g.height)
          /\ ScaledX(g.places[i].x, b.places[i].x, g.height)

\* C11: for every output height h, every coordinate, offset, font size,
\* line spacing and padding of the layout equals round(baseline value *
\* h / 480), the positions reached by accumulating rows included.
C11_ScaledFromBaseline ==
    (canvas # NoCanvas) =>
        ScaledFrom(canvas, geometry(canvas.width, 480, Len(parsed.val.calculatedconditions)))

\* C12: each vertical position and each font size of a render at height 2h
\* is exactly twice the value of the render of the same record at height h.
C12_DoublingDoubles ==
    [][(/\ canvas # NoCanvas
        /\ canvas' # NoCanvas
        /\ canvas'.height = 2 * canvas.height
        /\ canvas'.width = canvas.width)
       => /\ canvas'.fontSizeSmall = 2 * canvas.fontSizeSmall
          /\ canvas'.fontSizeNormal = 2 * canvas.fontSizeNormal
          /\ canvas'.fontSizeLarge = 2 * canvas.fontSizeLarge
          /\ \A i \in DOMAIN canvas.places :
                canvas'.places[i].y = 2 * canvas.places[i].y]_vars


(***************************************************************************)
(* Claims on the colours of the render (specification SpecRender).         *)
(***************************************************************************)
\* the class the classification rule gives a condition string
ConditionClass(text) ==
    IF includes(toLowerCase(text), tWordGood) \/ includes(toLowerCase(text), tWordMidLatAur)
    THEN "good"
    ELSE IF includes(toLowerCase(text), tWordFair) THEN "fair"
    ELSE IF includes(toLowerCase(text), tWordPoor) \/ includes(toLowerCase(text), tWordClosed)
    THEN "poor"
    ELSE "text"

\* the entries of the VHF / EME list: each is drawn in the colour
\* setConditionColor returns for it
VhfValueCalls == {i \in DOMAIN canvas : canvas[i].at = "vhf.value"}

ColouredMode == settings.mode = Num(1) /\ ~BwActive

\* C13: the colour setConditionColor chooses for a condition string: with
\* mode = 1 and black-and-white off the colour of its class (good, mid lat
\* aur -> good; fair -> fair; poor, closed -> poor; otherwise text), first
\* match winning, case-insensitively; with mode = 0 or black-and-white on
\* the default text colour for every string.
C13_ColourByClass ==
    Drawn =>
        \A i \in VhfValueCalls :
            canvas[i].style =
                IF ColouredMode
                THEN colorsOf(variant, settings)[ConditionClass(canvas[i].text)]
                ELSE colorsOf(variant, settings).text

\* a coloured render whose VHF list holds "Fair to Good" in the good colour
\* and "Poor/Closed" in the poor colour
C13_Witness ==
    /\ Drawn /\ ColouredMode
    /\ \E i, j \in VhfValueCalls :
          /\ canvas[i].text = tFairToGood
          /\ canvas[i].style = colorsOf(variant, settings).good
          /\ canvas[j].text = tPoorClosed
          /\ canvas[j].style = colorsOf(variant, settings).poor


(***************************************************************************)
(* The configuration middleware on its own: requests arrive one after the  *)
(* other, each with a query string that may carry any of the parameters    *)
(* mode, invert, width, height, bw_mode and blackAndWhite.  The middleware *)
(* destructures { mode, invert, width, height, bw_mode } from req.query,   *)
(* any other key of the query is ignored.                                  *)
(***************************************************************************)
tAbc == <<"a", "b", "c">>

ConfigQueries ==
    {[mode |-> m, invert |-> i, width |-> w, height |-> h, bw_mode |-> b,
      blackAndWhite |-> k] :
        m \in {Undef, s0, s1, Str(<<"2">>)}, i \in {Undef, s1},
        w \in {Undef, Str(<<"4", "0", "0">>), Str(tAbc)},
        h \in {Undef, Str(<<"2", "4", "0">>)},
        b \in {Undef, s1}, k \in {Undef, s1}}

InitConfig ==
    /\ variant \in Variants
    /\ settings = defaultSettings(variant)
    /\ resp = NoResp
    /\ feed = NoDoc
    /\ parsed = NotParsed
    /\ canvas = NoCanvas
    /\ clock = 0
    /\ lastData = Null
    /\ lastFetch = 0
    /\ reqs = [r \in Reqs |-> Idle]
    /\ lastOk = Null

\* a request with query q passes the app.use middleware
Middleware(q) ==
    /\ settings' = middleware(variant, settings, q)
    /\ resp' = [req |-> 1, endpoint |-> "root", query |-> q]
    /\ UNCHANGED <<variant, clock, lastData, lastFetch, reqs, lastOk, feed, parsed, canvas>>

NextConfig == \E q \in ConfigQueries : Middleware(q)

SpecConfig == InitConfig /\ [][NextConfig]_vars

\* a query value that is a decimal integer
IsInteger(v) == IsStr(v) /\ v.s # <<>> /\ \A i \in DOMAIN v.s : IsDigit(v.s[i])

\* a flag parameter: "0" and "1" are recognised, anything else gives dflt
FlagOr(v, dflt) == IF v = s0 THEN Num(0) ELSE IF v = s1 THEN Num(1) ELSE Num(dflt)

\* a size parameter: an integer is recognised, anything else gives dflt
SizeOr(v, dflt) == IF IsInteger(v) THEN parseInt(v) ELSE Num(dflt)

\* C14: after the middleware the render configuration is the one the
\* request's own query gives, whatever earlier requests sent: mode "0"/"1"
\* else 1, invert "0"/"1" else 0, width else 800, height else 480, and the
\* black-and-white theme on exactly when blackAndWhite is "1".
C14_ConfigFromOwnQuery ==
    (resp # NoResp) =>
        /\ settings.mode = FlagOr(resp.query.mode, 1)
        /\ settings.invert = FlagOr(resp.query.invert, 0)
        /\ settings.width = SizeOr(resp.query.width, 800)
        /\ settings.height = SizeOr(resp.query.height, 480)
        /\ BwActive <=> (resp.query.blackAndWhite = s1)


(***************************************************************************)
(* Claims on the responses and the cache (specification Spec).             *)
(***************************************************************************)
\* a /solar/* request has been answered
Served == Sent /\ resp.endpoint # "root"

\* getSolarXml threw, parseSolarXml threw, or the drawing surface threw
HandlerFailed == resp.threw \/ ~resp.parsedOk \/ resp.surfaceFailed

\* C15: each of /solar/json, /solar/canvas and /solar/png answers 500
\* exactly when obtaining the feed, parsing it or rendering fails and 200
\* otherwise; the body of a 500 is the fixed message of the endpoint (the
\* JSON error object for /solar/json, the plain text for the others),
\* whatever the error was.
C15_ErrorsAnswered500 ==
    Served =>
        /\ resp.status = (IF HandlerFailed THEN 500 ELSE 200)
        /\ HandlerFailed =>
              resp.body = (IF resp.endpoint = "json" THEN "error-json" ELSE "error-text")
        /\ ~HandlerFailed => resp.body \notin {"error-json", "error-text"}

\* a failed drawing surface answered 500 with the plain text message
C15_Witness ==
    /\ Served /\ resp.surfaceFailed /\ ~resp.threw /\ resp.parsedOk
    /\ resp.status = 500 /\ resp.body = "error-text"


(***************************************************************************)
(* Claims on the folded tables (specification SpecParse).                  *)
(***************************************************************************)
\* the entries of a collection that is present: the children of its first
\* element (none for an empty tag)
EntriesOf(coll) ==
    IF Len(coll.a) = 0 \/ coll.a[1].t # "elem" \/ coll.a[1].kids.t = "undef"
    THEN <<>>
    ELSE coll.a[1].kids.a

\* entry i of es carries the (name, secondary key) pair
PairAt(es, i, name, key) ==
    /\ es[i].t = "entry" /\ es[i].attrs # Undef
    /\ ToText(es[i].attrs.name) = name /\ ToText(es[i].attrs.key) = key

NamedAt(es, i, name) ==
    es[i].t = "entry" /\ es[i].attrs # Undef /\ ToText(es[i].attrs.name) = name

\* the position of the first entry of es with this name
FirstNamed(es, name) ==
    CHOOSE i \in 1..Len(es) : NamedAt(es, i, name) /\ \A j \in 1..(i - 1) : ~NamedAt(es, j, name)

\* table is the mapping name -> key -> text of the entries es: the last
\* entry of a pair wins, there are no other keys, and the names are in the
\* order of their first appearance
FoldOf(table, es) ==
    /\ \A a, b \in 1..Len(table) : table[a].k = table[b].k => a = b
    /\ \A a \in 1..Len(table) :
          /\ \E i \in 1..Len(es) : NamedAt(es, i, table[a].k)
          /\ \A c, d \in 1..Len(table[a].v) : table[a].v[c].k = table[a].v[d].k => c = d
          /\ \A c \in 1..Len(table[a].v) :
                \E i \in 1..Len(es) :
                    /\ PairAt(es, i, table[a].k, table[a].v[c].k)
                    /\ \A j \in (i + 1)..Len(es) : ~PairAt(es, j, table[a].k, table[a].v[c].k)
                    /\ table[a].v[c].v = es[i].text
    /\ \A i \in 1..Len(es) :
          (es[i].t = "entry" /\ es[i].attrs # Undef) =>
              /\ HasKey(table, ToText(es[i].attrs.name))
              /\ HasKey(Get(table, ToText(es[i].attrs.name)), ToText(es[i].attrs.key))
    /\ \A a, b \in 1..Len(table) :
          a < b => FirstNamed(es, table[a].k) < FirstNamed(es, table[b].k)

FoldedAsClaimed(table, coll) ==
    IF coll = Undef THEN table = <<>> ELSE FoldOf(table, EntriesOf(coll))

\* every scalar field of the document is present
LeavesPresent(doc) ==
    doc.env = "ok" /\ \A f \in FieldNames : doc.leaf[f] # Undef /\ doc.leaf[f] # Arr(<<>>)

\* C16: for a document whose scalar fields are all present, the two nested
\* tables are folded: an absent collection gives the empty mapping,
\* otherwise the table maps name -> secondary key -> text with the last
\* entry of each (name, key) pair winning, no other keys, and the names in
\* the order of their first appearance.
C16_TablesFolded ==
    (WasParsed /\ LeavesPresent(feed)) =>
        /\ parsed.ok
        /\ FoldedAsClaimed(parsed.val.calculatedconditions, feed.cc)
        /\ FoldedAsClaimed(parsed.val.calculatedvhfconditions, feed.vhf)


(***************************************************************************)
(* Claims on the highlight rectangles and the palette (SpecRender).        *)
(***************************************************************************)
\* the text drawn by call i has a filled rectangle drawn behind it
Boxed(i) ==
    i > 1 /\ canvas[i - 1].op = "fillRect" /\ canvas[i - 1].at = canvas[i].at

\* the calls that draw the values of the SFI and Sunspots blocks
TopValueCalls ==
    {i \in DOMAIN canvas :
        canvas[i].op = "fillText" /\ canvas[i].at \in {"sfi", "sunspots"}
        /\ canvas[i].label = ""}

DefaultConfig ==
    settings.mode = Num(1) /\ settings.invert = Num(0) /\ ~BwActive

\* C17: every condition string of class good (it contains "good" or
\* "mid lat aur") is drawn with a filled rectangle behind it, and so are
\* the SFI and sunspot values; at the default configuration a "Fair" cell
\* of the HF table has no rectangle and the fair colour.
C17_GoodIsBoxed ==
    Drawn =>
        /\ \A i \in ConditionTextCalls :
              ConditionClass(canvas[i].text) = "good" => Boxed(i)
        /\ \A i \in TopValueCalls : Boxed(i)
        /\ DefaultConfig =>
              \A i \in ConditionTextCalls :
                  (canvas[i].at \in HfCells /\ canvas[i].text = tFair) =>
                      ~Boxed(i) /\ canvas[i].style = colorsOf(variant, settings).fair


\* the theme object of the running program
ThemeOfVariant == IF variant = "server" THEN themeServer ELSE themeLegacy

\* the palette the precedence rule selects: black-and-white, then invert,
\* then normal
PaletteByPrecedence ==
    IF BwActive THEN themeServer.bw
    ELSE IF settings.invert = Num(1) THEN ThemeOfVariant.invert
    ELSE ThemeOfVariant.normal

\* the canvas is painted with palette p: its background, title, subtitle
\* and separator colours
PaintedWith(p) ==
    \A i \in DOMAIN canvas :
        /\ canvas[i].at = "background" => canvas[i].style = p.background
        /\ canvas[i].at \in {"header", "hf.title"} => canvas[i].style = p.title
        /\ canvas[i].at \in {"subtitle", "hf.band", "vhf.label"} => canvas[i].style = p.subtitle
        /\ canvas[i].at \in {"separator.top", "separator.mid"} => canvas[i].style = p.separator
        /\ (canvas[i].at = "kindex" /\ canvas[i].label = "") => canvas[i].style = p.text

\* C18: the palette is the black-and-white one whenever the black-and-white
\* flag is set, whatever invert and mode are; otherwise the invert palette
\* when invert = 1; otherwise the normal palette.
C18_PalettePrecedence ==
    Drawn => PaintedWith(PaletteByPrecedence)

\* a render with the black-and-white flag, invert = 1 and mode = 1, painted
\* with the black-and-white palette
C18_Witness ==
    /\ Drawn /\ BwActive /\ settings.invert = Num(1) /\ settings.mode = Num(1)
    /\ PaintedWith(themeServer.bw)
    /\ ~PaintedWith(themeServer.invert)


(***************************************************************************)
(* Claims on the cache over time (specification Spec).                     *)
(***************************************************************************)
\* C19: in every reachable state the cached payload is null exactly when
\* the fetch time stamp is 0; a step that writes one of the two writes both
\* (a payload and the current time), and neither is ever reset: once a
\* payload is cached the cache is never empty again.
C19_PayloadIffStamped ==
    /\ [](lastData = Null <=> lastFetch = 0)
    /\ [][/\ lastData # Null => lastData' # Null
          /\ lastFetch # 0 => lastFetch' # 0
          /\ (lastData' # lastData \/ lastFetch' # lastFetch)
                => (lastData' # Null /\ lastFetch' = Now)]_vars

\* a request whose fetch failed after an earlier success: the payload and
\* its time stamp are both still there
C19_Witness ==
    /\ Sent /\ resp.fetch = "failed" /\ resp.priorOk
    /\ lastData # Null /\ lastFetch # 0 /\ clock > 0


\* a payload is cached and more than five minutes old
Expired == lastData # Null /\ Now - lastFetch > FiveMinutesMs

\* a payload is cached and at most five minutes old
Fresh == lastData # Null /\ Now - lastFetch <= FiveMinutesMs

\* this step completes a successful fetch
FetchSucceeds == resp = NoResp /\ resp' # NoResp /\ resp'.fetch = "ok"

\* C20: a failed refresh does not advance the fetch time stamp: an expired
\* payload stays expired through every step that is not a successful fetch,
\* and every request arriving meanwhile starts its own fetch; a successful
\* fetch makes the payload fresh, and a request arriving while it is at
\* most five minutes old performs no fetch.
C20_RetryUntilSuccess ==
    [][/\ (Expired /\ ~FetchSucceeds) => (Expired' /\ lastFetch' = lastFetch)
       /\ \A r \in Reqs : (ArrivesForFeed(r) /\ Expired) => reqs'[r].pc = "awaitFetch"
       /\ FetchSucceeds => Fresh'
       /\ \A r \in Reqs :
             (ArrivesForFeed(r) /\ Fresh) => (reqs'[r].pc = "idle" /\ resp'.fetch = "none")]_vars

\* a refresh of an expired payload has failed: the payload is still
\* expired, and another request is in flight with a fetch of its own
C20_Witness ==
    /\ Sent /\ resp.fetch = "failed" /\ resp.cachedBefore # Null
    /\ Expired
    /\ \E r \in Reqs : reqs[r].pc = "awaitFetch"


\* a body that parseSolarXml rejects (it lacks the solardata envelope)
Unparseable(name) == name \in FeedNames /\ ~parses(variant, name)

\* the cache holds such a body
BadCached == lastData # Null /\ Unparseable(lastData)

\* C21: the cache stores the body of any successful fetch unchecked: a body
\* without the solardata envelope replaces whatever was cached, the request
\* that fetched it is answered 500, and every request arriving while that
\* body is at most five minutes old performs no fetch, is handed that body
\* (not the earlier payload) and is answered 500.
C21_BadBodyCached ==
    [][/\ (FetchSucceeds /\ Unparseable(resp'.payload))
            => (lastData' = resp'.payload /\ lastFetch' = Now /\ resp'.status = 500)
       /\ \A r \in Reqs :
             (ArrivesForFeed(r) /\ BadCached /\ Fresh)
                => /\ reqs'[r].pc = "idle"
                   /\ resp'.fetch = "none"
                   /\ resp'.payload = lastData
                   /\ resp'.status = 500
                   /\ UNCHANGED <<lastData, lastFetch>>]_vars

\* a successful fetch has replaced a cached payload that parses by a body
\* that does not, and its request was answered 500
C21_Witness ==
    /\ Sent /\ resp.fetch = "ok" /\ resp.status = 500
    /\ resp.cachedBefore # Null /\ ~Unparseable(resp.cachedBefore)
    /\ BadCached /\ Fresh

============================================================================
